---- MODULE Spec2Model ----
(***************************************************************************)
(* Model of Modules/Language/LanguageInterpreter.py: the tool registry     *)
(* built by add_tool and the turn loop of run, which alternates between    *)
(* the model provider (ollama.chat) and the registered tool callbacks.     *)
(* The provider and the callbacks are the environment: every response and  *)
(* every callback outcome is a nondeterministic choice from a small set.   *)
(***************************************************************************)
EXTENDS Naturals, Sequences, FiniteSets, TLC

\* ------------------------------------------------------------------ bounds
MaxTools == 2   \* add_tool calls over the lifetime of the interpreter
MaxRuns  == 2   \* run calls over the lifetime of the interpreter
MaxChats == 2   \* ollama.chat calls over the lifetime of the interpreter
MaxCalls == 2   \* invocation requests carried by one assistant message
MaxParams == 2  \* parameters of a generated host function

\* ------------------------------------------------- python values and repr
PyNone     == [t |-> "None", v |-> "", squote |-> FALSE]
PyInt7     == [t |-> "int", v |-> "7", squote |-> FALSE]
PyStr(s)   == [t |-> "str", v |-> s, squote |-> FALSE]

\* repr() of a value: str values are quoted, with double quotes when the
\* text itself holds a single quote; an exception is Type(repr(arg)).
Repr(val) ==
    CASE val.t = "None" -> "None"
      [] val.t = "int"  -> val.v
      [] val.t = "str"  -> IF val.squote THEN "\"" \o val.v \o "\""
                                         ELSE "'" \o val.v \o "'"
      [] val.t = "exc"  -> val.type \o "(" \o
                           (IF val.squote THEN "\"" \o val.v \o "\""
                                          ELSE "'" \o val.v \o "'") \o ")"

PyExc(type, msg, q) == [t |-> "exc", type |-> type, v |-> msg, squote |-> q]

\* the exception classes that occur; all of them derive from Exception.
\* (A callback is taken to return or to fail with an Exception; interpreter
\* exits such as SystemExit or KeyboardInterrupt are not failures of a tool.)
ExceptionClasses == {"ValueError", "TypeError", "ConnectionError"}

\* what a failing ollama.chat raises
ProviderError == PyExc("ConnectionError", "Failed to connect to Ollama", FALSE)

\* --------------------------------------------------------- host functions
\* def move(x: int, speed=1)   """Move the arm"""      returns None or raises
\* def move(x)                 """Move the arm (v2)""" returns 7
\* def grip(force: float)      (no docstring)          returns 'ok'
Param(n, ann, hasAnn, hasDef) ==
    [name |-> n, annotation |-> ann, annotated |-> hasAnn, has_default |-> hasDef]

F1 == [id |-> "f1", name |-> "move", doc |-> "Move the arm",
       params |-> << Param("x", "int", TRUE, FALSE), Param("speed", "", FALSE, TRUE) >>,
       body |-> { [kind |-> "return", value |-> PyNone],
                  [kind |-> "raise", value |-> PyExc("ValueError", "bad", FALSE)] }]
F2 == [id |-> "f2", name |-> "move", doc |-> "Move the arm (v2)",
       params |-> << Param("x", "", FALSE, FALSE) >>,
       body |-> { [kind |-> "return", value |-> PyInt7] }]
F3 == [id |-> "f3", name |-> "grip", doc |-> "",
       params |-> << Param("force", "float", TRUE, FALSE) >>,
       body |-> { [kind |-> "return", value |-> PyStr("ok")] }]

Fns == {F1, F2, F3}

\* ---------------------------------------------- provider and caller inputs
Commands == {"go", "hi"}
Contents == {"", "done", "ok"}

Request(n, a) == [name |-> n, arguments |-> a]

\* arguments is a mapping, kept as a set of <<key, value>> pairs
Requests == { Request("move", {<<"x", 1>>}),
              Request("grip", {}) }

RECURSIVE SeqsUpTo(_, _)
SeqsUpTo(S, n) ==
    IF n = 0 THEN { << >> }
    ELSE LET shorter == SeqsUpTo(S, n - 1)
         IN  shorter \cup { Append(s, e) : s \in { t \in shorter : Len(t) = n - 1 }, e \in S }

Msg(role, text, has, calls) ==
    [role |-> role, content |-> text, has_tool_calls |-> has, tool_calls |-> calls]

UserMessage(command) == Msg("user", command, FALSE, << >>)
ToolMessage(text)    == Msg("tool", text, FALSE, << >>)

\* what ollama.chat may return in response["message"]: the "tool_calls" key
\* is either absent or holds a list of 0..MaxCalls requests
Responses ==
    { Msg("assistant", c, FALSE, << >>) : c \in Contents } \cup
    { Msg("assistant", c, TRUE, tc) : c \in Contents, tc \in SeqsUpTo(Requests, MaxCalls) }

NoCalls(message) == ~message.has_tool_calls \/ Len(message.tool_calls) = 0

\* ------------------------------------------------------------------ state
VARIABLES
    messages,        \* self.messages
    tools,           \* self.tools
    tool_callbacks,  \* self.tool_callbacks: name -> host function
    pc,              \* "idle" | "awaiting" (at ollama.chat) | "executing" (in the for loop)
    done,            \* local done of run
    content,         \* local content of run
    tool_calls,      \* local tool_calls of run
    idx,             \* position of the for loop in tool_calls (next to process)
    ret,             \* how the last run call ended and what it returned
    registered,      \* the functions passed to add_tool so far, in call order
    nruns,           \* run calls so far
    nchats,          \* ollama.chat calls so far
    produced,        \* every message handed to self.messages.append so far, in order
    run_base,        \* what had been produced when the current run was called
    received,        \* the answers of ollama.chat in the current run, in turn order
    sent,            \* arguments of the ollama.chat calls of the current run
    executed,        \* callbacks executed in the current run
    answers,         \* per message: <<p, j>> when it is the result of request j of messages[p]
    aborted          \* some run call ended with an exception instead of a return

vars == << messages, tools, tool_callbacks, pc, done, content, tool_calls, idx, ret,
           registered, nruns, nchats, produced, run_base, received, sent, executed, answers,
           aborted >>

Init ==
    /\ messages = << >>
    /\ tools = << >>
    /\ tool_callbacks = << >>
    /\ pc = "idle"
    /\ done = FALSE
    /\ content = ""
    /\ tool_calls = << >>
    /\ idx = 1
    /\ ret = [status |-> "none", value |-> ""]
    /\ registered = << >>
    /\ nruns = 0
    /\ nchats = 0
    /\ produced = << >>
    /\ run_base = << >>
    /\ received = << >>
    /\ sent = << >>
    /\ executed = << >>
    /\ answers = << >>
    /\ aborted = FALSE

\* ---------------------------------------------------------------- add_tool
\* annotation.__name__: Parameter.empty is the class inspect._empty
AnnotationName(p) == IF p.annotated THEN p.annotation ELSE "_empty"

\* `annotation != Parameter.empty` compares that str with the class itself
IsParameterEmpty(name) == FALSE

ParamType(p) ==
    IF ~IsParameterEmpty(AnnotationName(p)) THEN AnnotationName(p) ELSE "any"

Property(p) ==
    [name |-> p.name, type |-> ParamType(p),
     description |-> "The " \o p.name \o " parameter"]

Properties(f) == [k \in 1..Len(f.params) |-> Property(f.params[k])]

\* a required list built from the parameters that do declare a default
Required_Defaulted(f) ==
    LET keep(p) == p.has_default
    IN  [k \in 1..Len(SelectSeq(f.params, keep)) |-> SelectSeq(f.params, keep)[k].name]

\* lines 42, 50-51
Required(f) ==
    LET keep(p) == ~p.has_default
    IN  [k \in 1..Len(SelectSeq(f.params, keep)) |-> SelectSeq(f.params, keep)[k].name]

Tool(f) ==
    [type |-> "function",
     function |-> [name |-> f.name, description |-> f.doc,
                   parameters |-> [type |-> "object",
                                   properties |-> Properties(f),
                                   required |-> Required(f)]]]

\* self.tools.append(tool)
AppendTool(ts, f) == Append(ts, Tool(f))

\* a registry that keeps the entry a name already has
SetCallback_KeepFirst(cbs, f) ==
    [n \in DOMAIN cbs \cup {f.name} |-> IF n \in DOMAIN cbs THEN cbs[n] ELSE f]

\* a registry that is rebuilt around the newest function
SetCallback_Only(cbs, f) == [n \in {f.name} |-> f]

\* self.tool_callbacks[fn.__name__] = fn
SetCallback(cbs, f) ==
    [n \in DOMAIN cbs \cup {f.name} |-> IF n = f.name THEN f ELSE cbs[n]]

add_tool(f) ==
    /\ pc = "idle"
    /\ Len(registered) < MaxTools
    /\ tools' = AppendTool(tools, f)
    /\ tool_callbacks' = SetCallback(tool_callbacks, f)
    /\ registered' = Append(registered, f)
    /\ UNCHANGED << messages, pc, done, content, tool_calls, idx, ret, nruns, nchats,
                    produced, run_base, received, sent, executed, answers, aborted >>

\* --------------------------------------------------------------------- run
\* a run that starts from a fresh transcript
StartTranscript_Fresh(ms, command) == << UserMessage(command) >>

\* self.messages.append({"role": "user", "content": command})
StartTranscript(ms, command) == Append(ms, UserMessage(command))

RunStart(command) ==
    /\ pc = "idle"
    /\ nruns < MaxRuns
    /\ messages' = StartTranscript(messages, command)
    /\ answers' = Append(answers, << 0, 0 >>)
    /\ done' = FALSE
    /\ content' = ""
    /\ tool_calls' = << >>
    /\ idx' = 1
    /\ pc' = "awaiting"
    /\ ret' = [status |-> "running", value |-> ""]
    /\ nruns' = nruns + 1
    /\ produced' = Append(produced, UserMessage(command))
    /\ run_base' = produced
    /\ received' = << >>
    /\ sent' = << >>
    /\ executed' = << >>
    /\ UNCHANGED << tools, tool_callbacks, registered, nchats, aborted >>

\* an accumulator that keeps only the latest turn
Accumulate_Overwrite(acc, message) == message.content

\* content += message["content"]
Accumulate(acc, message) == acc \o message.content

\* a test that ends the loop only when the "tool_calls" key is absent
Done_OnlyWhenAbsent(message) == ~message.has_tool_calls

\* lines 82-85 and 100-101: done is set when "tool_calls" is absent or empty
Done(message) ==
    IF message.has_tool_calls THEN Len(message.tool_calls) = 0 ELSE TRUE

\* while not done: the loop either asks the provider again or falls through
\* to `return content`
LoopTest(d) == IF d THEN "idle" ELSE "awaiting"

Returned(text) == [status |-> "returned", value |-> text]

\* an exception leaves run: the caller sees it instead of a return value
Raised(ex) == [status |-> "raised", value |-> Repr(ex)]

\* one pass through lines 76-85 and 100-102: the provider answers, the answer
\* is accumulated and appended, and run either returns or enters the for loop
Chat(message) ==
    /\ pc = "awaiting"
    /\ nchats < MaxChats
    /\ nchats' = nchats + 1
    /\ sent' = Append(sent, [messages |-> messages, tools |-> tools])
    /\ received' = Append(received, message)
    /\ content' = Accumulate(content, message)
    /\ messages' = Append(messages, message)
    /\ produced' = Append(produced, message)
    /\ answers' = Append(answers, << 0, 0 >>)
    /\ tool_calls' = IF message.has_tool_calls THEN message.tool_calls ELSE << >>
    /\ idx' = 1
    /\ done' = Done(message)
    /\ pc' = IF Len(tool_calls') > 0 THEN "executing" ELSE LoopTest(done')
    /\ ret' = IF pc' = "idle" THEN Returned(content') ELSE ret
    /\ UNCHANGED << tools, tool_callbacks, registered, nruns, run_base, executed, aborted >>

\* a loop that swallows the failure of ollama.chat and asks again
ChatCaught_Retry(ex) == TRUE

\* lines 76-78 stand in no try block: no exception of ollama.chat is caught
ChatCaught(ex) == FALSE

\* a run that takes back what it appended when it is aborted
AfterFailure_Rollback(ms, base) == base

\* the exception leaves run through no handler and no finally clause:
\* self.messages stays as it is
AfterFailure(ms, base) == ms

\* ollama.chat raises
ChatFails ==
    /\ pc = "awaiting"
    /\ nchats < MaxChats
    /\ nchats' = nchats + 1
    /\ sent' = Append(sent, [messages |-> messages, tools |-> tools])
    /\ IF ChatCaught(ProviderError)
       THEN UNCHANGED << pc, ret, aborted, messages >>
       ELSE /\ pc' = "idle"
            /\ ret' = Raised(ProviderError)
            /\ aborted' = TRUE
            /\ messages' = AfterFailure(messages, run_base)
    /\ UNCHANGED << tools, tool_callbacks, done, content, tool_calls, idx,
                    registered, nruns, produced, run_base, received, executed, answers >>

\* ------------------------------------------------------ calling a callback
ArgKeys(args) == { a[1] : a \in args }
ParamNames(f) == { f.params[k].name : k \in 1..Len(f.params) }
RequiredNames(f) == { f.params[k].name : k \in { j \in 1..Len(f.params) : ~f.params[j].has_default } }

FirstUnexpected(f, args) == CHOOSE k \in ArgKeys(args) : k \notin ParamNames(f)
FirstMissing(f, args) ==
    f.params[CHOOSE j \in 1..Len(f.params) :
                /\ ~f.params[j].has_default /\ f.params[j].name \notin ArgKeys(args)
                /\ \A i \in 1..(j - 1) : f.params[i].has_default \/ f.params[i].name \in ArgKeys(args)].name

\* a call that passes no argument on
KeywordArgs_Empty(call) == {}

\* args = fn["arguments"], handed to the callback as **args
KeywordArgs(call) == call.arguments

\* fn(**args): binding the keywords fails with TypeError before the body runs
CallOutcomes(f, args) ==
    IF ~(ArgKeys(args) \subseteq ParamNames(f))
    THEN { [kind |-> "raise",
            value |-> PyExc("TypeError", f.name \o "() got an unexpected keyword argument '"
                                         \o FirstUnexpected(f, args) \o "'", TRUE)] }
    ELSE IF ~(RequiredNames(f) \subseteq ArgKeys(args))
    THEN { [kind |-> "raise",
            value |-> PyExc("TypeError", f.name \o "() missing 1 required positional argument: '"
                                         \o FirstMissing(f, args) \o "'", TRUE)] }
    ELSE f.body

\* a handler that catches one exception class only
Caught_OnlyValueError(ex) == ex.type = "ValueError"

\* except Exception as ex
Caught(ex) == ex.type \in ExceptionClasses

SuccessMessage(value) == "Completed with no errors. Result: " \o Repr(value)
ErrorMessage(ex)      == "Error: " \o Repr(ex)
UnknownMessage_NoName(name) == "Error: not a tool."
UnknownMessage(name)  == "Error: " \o name \o " is not a tool."

\* lines 91-98
ToolResponse(known, name, outcome) ==
    IF known
    THEN IF outcome.kind = "return" THEN SuccessMessage(outcome.value)
                                    ELSE ErrorMessage(outcome.value)
    ELSE UnknownMessage(name)

\* a loop that walks the list from its end
CurrentCall_Reversed(calls, i) == calls[Len(calls) + 1 - i]

\* for tool_call in tool_calls: the request the loop is at
CurrentCall(calls, i) == calls[i]

\* a loop that answers only the first request of a batch
AfterTool_Break(i, n, d) == LoopTest(d)

\* the for loop moves on to the next request, or back to the while test
AfterTool(i, n, d) == IF i < n THEN "executing" ELSE LoopTest(d)

ExecKnown ==
    /\ pc = "executing"
    /\ LET call == CurrentCall(tool_calls, idx)
           name == call.name
       IN  /\ name \in DOMAIN tool_callbacks
           /\ \E outcome \in CallOutcomes(tool_callbacks[name], KeywordArgs(call)) :
                /\ executed' = Append(executed, [fn |-> tool_callbacks[name].id,
                                                 name |-> name,
                                                 arguments |-> KeywordArgs(call),
                                                 outcome |-> outcome])
                /\ IF outcome.kind = "return" \/ Caught(outcome.value)
                   THEN /\ messages' = Append(messages, ToolMessage(ToolResponse(TRUE, name, outcome)))
                        /\ produced' = Append(produced, ToolMessage(ToolResponse(TRUE, name, outcome)))
                        /\ answers' = Append(answers, << Len(messages) - (idx - 1), idx >>)
                        /\ pc' = AfterTool(idx, Len(tool_calls), done)
                        /\ ret' = IF pc' = "idle" THEN Returned(content) ELSE ret
                        /\ idx' = idx + 1
                        /\ UNCHANGED aborted
                   ELSE /\ pc' = "idle"
                        /\ ret' = Raised(outcome.value)
                        /\ aborted' = TRUE
                        /\ UNCHANGED << messages, produced, answers, idx >>
    /\ UNCHANGED << tools, tool_callbacks, done, content, tool_calls, registered, nruns,
                    nchats, run_base, received, sent >>

ExecUnknown ==
    /\ pc = "executing"
    /\ LET name == CurrentCall(tool_calls, idx).name
       IN  /\ name \notin DOMAIN tool_callbacks
           /\ messages' = Append(messages, ToolMessage(ToolResponse(FALSE, name, [kind |-> "none"])))
           /\ produced' = Append(produced, ToolMessage(ToolResponse(FALSE, name, [kind |-> "none"])))
    /\ answers' = Append(answers, << Len(messages) - (idx - 1), idx >>)
    /\ pc' = AfterTool(idx, Len(tool_calls), done)
    /\ ret' = IF pc' = "idle" THEN Returned(content) ELSE ret
    /\ idx' = idx + 1
    /\ UNCHANGED << tools, tool_callbacks, done, content, tool_calls, registered, nruns,
                    nchats, run_base, received, sent, executed, aborted >>

Next ==
    \/ \E f \in Fns : add_tool(f)
    \/ \E command \in Commands : RunStart(command)
    \/ \E message \in Responses : Chat(message)
    \/ ChatFails
    \/ ExecKnown
    \/ ExecUnknown

Spec == Init /\ [][Next]_vars

\* The same program with a provider that answers every call and whose
\* MaxChats-th answer carries no request.  The text of an answer and of a
\* command has no influence on the control flow of run, so one of each is
\* enough here.
LiveResponses == { m \in Responses : m.content = "" }

ChatLive ==
    \E message \in LiveResponses :
        /\ nchats + 1 = MaxChats => NoCalls(message)
        /\ Chat(message)

\* run is called only while the provider has an answer left to give
RunLive == nchats < MaxChats /\ RunStart("go")

NextLive ==
    \/ \E f \in Fns : add_tool(f)
    \/ RunLive
    \/ ChatLive
    \/ ExecKnown
    \/ ExecUnknown

\* ollama.chat and the callbacks are synchronous calls: each one returns (or
\* raises) and the loop takes its next step
LiveSpec ==
    Init /\ [][NextLive]_vars /\ WF_vars(ChatLive) /\ WF_vars(ExecKnown) /\ WF_vars(ExecUnknown)

\* ------------------------------------------- add_tool on any signature
\* Host functions def gen(...) with up to MaxParams parameters of distinct
\* names, each with or without an annotation and with or without a default
\* (a parameter without default may follow one with default: keyword-only).
ParamPool ==
    { Param(n, a[1], a[2], d) : n \in {"a", "b", "c"},
                                a \in { << "int", TRUE >>, << "", FALSE >> },
                                d \in BOOLEAN }

DistinctNames(ps) == \A i, j \in 1..Len(ps) : ps[i].name = ps[j].name => i = j

GenFns ==
    { [id |-> "g", name |-> "gen", doc |-> "", params |-> ps, body |-> {}] :
        ps \in { q \in SeqsUpTo(ParamPool, MaxParams) : DistinctNames(q) } }

NextDerive == \E f \in GenFns : add_tool(f)

DeriveSpec == Init /\ [][NextDerive]_vars

TypeOK ==
    /\ pc \in {"idle", "awaiting", "executing"}
    /\ Len(answers) = Len(messages)
    /\ pc = "executing" => idx \in 1..Len(tool_calls)

\* ----------------------------------------------------------------- claims
\* the texts a tool-role message can hold as the result of one request
ResultsOf(call) ==
    { UnknownMessage(call.name) } \cup
    { ToolResponse(TRUE, call.name, o) :
        o \in UNION { CallOutcomes(f, call.arguments) : f \in { g \in Fns : g.name = call.name } } }

\* messages[p] carries k >= 1 requests and ms, a prefix of messages, pairs it
PairedAt(ms, p) ==
    LET k == Len(ms[p].tool_calls)
    IN  /\ p + k <= Len(ms)
        /\ \A j \in 1..k :
              /\ ms[p + j].role = "tool"
              /\ answers[p + j] = << p, j >>
              /\ ms[p + j].content \in ResultsOf(ms[p].tool_calls[j])
        /\ p + k + 1 <= Len(ms) => ms[p + k + 1].role # "tool"

Paired(ms) ==
    \A p \in 1..Len(ms) :
        (ms[p].role = "assistant" /\ Len(ms[p].tool_calls) >= 1) => PairedAt(ms, p)

\* C1: whenever the provider is called, and whenever run returns, every
\* assistant message of the transcript that carries k >= 1 requests is
\* followed at once by exactly k tool messages, the i-th being the result
\* of the i-th request.
C1_TranscriptPairing ==
    /\ pc = "awaiting" => Paired(messages)
    /\ (pc = "idle" /\ ret.status = "returned") => Paired(messages)
    /\ \A c \in 1..Len(sent) : Paired(sent[c].messages)

\* a provider call whose transcript holds a two-request turn and its results
C1_Witness ==
    /\ Len(sent) = 2
    /\ \E p \in 1..Len(sent[2].messages) :
          /\ sent[2].messages[p].role = "assistant"
          /\ Len(sent[2].messages[p].tool_calls) = 2
          /\ sent[2].messages[p].tool_calls[1] # sent[2].messages[p].tool_calls[2]

RECURSIVE ConcatContents(_)
ConcatContents(ms) ==
    IF ms = << >> THEN "" ELSE ms[1].content \o ConcatContents(Tail(ms))

\* C2: what run returns is the concatenation, in turn order, of the content
\* of the assistant messages the provider produced during this call, and of
\* nothing else.
C2_ReturnsConcatenation ==
    ret.status = "returned" => ret.value = ConcatContents(received)

\* a second run call returns after an earlier call returned other text
C2_WitnessSecondRun ==
    /\ ret.status = "returned"
    /\ nruns = 2
    /\ \E p \in 1..Len(run_base) :
          run_base[p].role = "assistant" /\ run_base[p].content = "ok"
    /\ ret.value = "done"

\* one call returns the text of a tool-calling turn followed by the final turn
C2_Witness ==
    /\ ret.status = "returned"
    /\ Len(received) = 2
    /\ received[1].content = "ok" /\ Len(received[1].tool_calls) >= 1
    /\ received[2].content = "done"
    /\ ret.value = "okdone"

C3_Returned ==
    ret.status = "returned" =>
        /\ Len(received) >= 1
        /\ NoCalls(received[Len(received)])
        /\ \A k \in 1..(Len(received) - 1) : ~NoCalls(received[k])

C3_Running ==
    ret.status = "running" =>
        /\ pc \in {"awaiting", "executing"}
        /\ \A k \in 1..Len(received) : ~NoCalls(received[k])

C3_Step ==
    /\ pc = "executing" => (pc' \in {"executing", "awaiting"} /\ nchats' = nchats)
    /\ pc = "awaiting" => nchats' = nchats + 1

\* C3: run returns exactly at the first assistant message without requests
\* (key absent or list empty), without another provider call; a message
\* with requests never ends the call: its batch is worked off and the loop
\* comes back to the provider call; with a provider that in the end answers
\* without requests, every call of run returns.
C3_TurnLoopTermination ==
    /\ [](C3_Returned /\ C3_Running)
    /\ [][C3_Step]_vars
    /\ (ret.status = "running") ~> (ret.status = "returned")

\* run returned on an empty tool_calls list after a turn that carried requests
C3_Witness ==
    /\ ret.status = "returned"
    /\ Len(received) = 2
    /\ Len(received[1].tool_calls) = 2
    /\ received[2].has_tool_calls /\ Len(received[2].tool_calls) = 0

LastExecuted(log) == log[Len(log)]

C4_Step ==
    (pc = "executing" /\ Len(executed') = Len(executed) + 1
                      /\ LastExecuted(executed').outcome.kind = "raise") =>
        /\ messages' = Append(messages,
                ToolMessage("Error: " \o Repr(LastExecuted(executed').outcome.value)))
        /\ ret'.status = "running"
        /\ idx' = idx + 1
        /\ pc' = IF idx < Len(tool_calls) THEN "executing" ELSE "awaiting"

\* C4: a callback that raises yields the tool message "Error: " followed by
\* the repr of the exception; the loop then goes on with the next request of
\* the batch, or with the next provider call after the last one, and the only
\* exception that ever leaves run is the provider's.
C4_CallbackFailureContained ==
    /\ [][C4_Step]_vars
    /\ [](ret.status = "raised" => ret.value = Repr(ProviderError))

\* a raising callback in first place of a batch, the rest of the batch
\* processed, and the call returned after a further turn
C4_Witness ==
    /\ ret.status = "returned"
    /\ \E p \in 1..Len(messages) :
          /\ answers[p] = << p - 1, 1 >>
          /\ messages[p].content = "Error: ValueError('bad')"
          /\ p + 2 <= Len(messages)
          /\ answers[p + 1] = << p - 1, 2 >>
          /\ messages[p + 2].role = "assistant"

C5_Step ==
    (pc = "executing" /\ tool_calls[idx].name \notin DOMAIN tool_callbacks) =>
        /\ messages' = Append(messages,
                ToolMessage("Error: " \o tool_calls[idx].name \o " is not a tool."))
        /\ executed' = executed
        /\ ret'.status = "running"
        /\ idx' = idx + 1
        /\ pc' = IF idx < Len(tool_calls) THEN "executing" ELSE "awaiting"

\* C5: a request for a name that is not registered runs no callback, is
\* answered by the tool message "Error: <name> is not a tool.", and leaves
\* the loop on its way to the next provider call; nothing is raised.
C5_UnknownTool == [][C5_Step]_vars

\* an unknown name was answered and the provider was asked again
C5_Witness ==
    /\ "grip" \notin DOMAIN tool_callbacks
    /\ executed = << >>
    /\ Len(sent) = 2
    /\ \E p \in 1..Len(sent[2].messages) :
          /\ sent[2].messages[p].role = "tool"
          /\ sent[2].messages[p].content = "Error: grip is not a tool."

C6_Step ==
    pc = "executing" =>
        /\ nchats' = nchats /\ sent' = sent /\ received' = received
        /\ ret'.status = "running" =>
              /\ Len(messages') = Len(messages) + 1
              /\ messages'[Len(messages')].role = "tool"
              /\ messages'[Len(messages')].content \in ResultsOf(tool_calls[idx])
              /\ messages[Len(messages) - (idx - 1)].tool_calls = tool_calls
              /\ \A j \in 1..(idx - 1) : messages[Len(messages) - (idx - 1) + j].role = "tool"

\* the provider call that follows a turn of n requests sees the assistant
\* message of that turn followed by its n results and nothing else
C6_NextCall ==
    \A c \in 2..Len(sent) :
        LET ms   == sent[c].messages
            n    == Len(received[c - 1].tool_calls)
            base == Len(sent[c - 1].messages)
        IN  /\ Len(ms) = base + 1 + n
            /\ ms[base + 1] = received[c - 1]
            /\ \A j \in 1..n :
                  /\ ms[base + 1 + j].role = "tool"
                  /\ ms[base + 1 + j].content \in ResultsOf(received[c - 1].tool_calls[j])

\* C6: the n requests of one turn are processed in the order listed, each by
\* one step that appends one tool message and calls no provider, and the
\* next provider call comes only after all n results are in the transcript.
C6_BatchInOrder == [][C6_Step]_vars /\ []C6_NextCall

\* a turn with two different requests was answered and the provider called again
C6_Witness ==
    /\ Len(sent) = 2
    /\ Len(received[1].tool_calls) = 2
    /\ received[1].tool_calls[1].name = "grip"
    /\ received[1].tool_calls[2].name = "move"

\* C7: when every earlier run call returned, the transcript of the first
\* provider call of a later run call is all messages of those calls, in
\* order, followed by the new user message.
C7_HistoryAccumulates ==
    (pc = "awaiting" /\ Len(sent) = 0 /\ ~aborted) =>
        /\ produced[Len(produced)].role = "user"
        /\ run_base = SubSeq(produced, 1, Len(produced) - 1)
        /\ messages = Append(run_base, produced[Len(produced)])

\* the second call is about to ask the provider; the first call left a user,
\* two assistant messages and a tool message
C7_Witness ==
    /\ pc = "awaiting" /\ Len(sent) = 0 /\ ~aborted
    /\ nruns = 2
    /\ Len(run_base) = 4
    /\ run_base[3].role = "tool"
    /\ Len(messages) = 5

\* the function most recently passed to add_tool under a name
LastRegistered(name) ==
    registered[CHOOSE k \in 1..Len(registered) :
                  /\ registered[k].name = name
                  /\ \A j \in (k + 1)..Len(registered) : registered[j].name # name]

C8_Step ==
    Len(executed') = Len(executed) + 1 =>
        /\ LastExecuted(executed').name = tool_calls[idx].name
        /\ \E j \in 1..Len(registered) : registered[j].name = tool_calls[idx].name
        /\ LastExecuted(executed').fn = LastRegistered(tool_calls[idx].name).id

\* C8: every callback execution for a name runs the function registered
\* last under that name; a function registered earlier under the same name
\* is never run again.
C8_DispatchToLatest == [][C8_Step]_vars

\* both functions named move were registered, then move was requested
C8_Witness ==
    /\ Len(registered) = 2
    /\ registered[1].id = "f1" /\ registered[2].id = "f2"
    /\ Len(executed) >= 1
    /\ executed[1].name = "move" /\ executed[1].fn = "f2"

\* C9: no two entries of the registry carry the same name: the callbacks
\* and the tool schemas handed to the provider hold one entry per name, the
\* one registered last.
C9_UniqueToolNames ==
    /\ \A i, j \in 1..Len(tools) :
          tools[i].function.name = tools[j].function.name => i = j
    /\ \A c \in 1..Len(sent) : \A i, j \in 1..Len(sent[c].tools) :
          sent[c].tools[i].function.name = sent[c].tools[j].function.name => i = j
    /\ \A i \in 1..Len(tools) :
          /\ tools[i].function.name \in DOMAIN tool_callbacks
          /\ tools[i] = Tool(tool_callbacks[tools[i].function.name])

RECURSIVE TotalCalls(_)
TotalCalls(turns) ==
    IF turns = << >> THEN 0 ELSE Len(turns[1].tool_calls) + TotalCalls(Tail(turns))

\* the roles of a run call's messages: each turn's assistant message
\* followed by one tool message per request
RECURSIVE TurnRoles(_)
TurnRoles(turns) ==
    IF turns = << >> THEN << >>
    ELSE << "assistant" >> \o [j \in 1..Len(turns[1].tool_calls) |-> "tool"]
                          \o TurnRoles(Tail(turns))

\* the messages the current run call has added to the transcript
Added == SubSeq(messages, Len(run_base) + 1, Len(messages))

C10_Counts ==
    ret.status = "returned" =>
        /\ Len(sent) = Len(received)
        /\ Len(messages) = Len(run_base) + 1 + Len(received) + TotalCalls(received)
        /\ [k \in 1..Len(Added) |-> Added[k].role] = << "user" >> \o TurnRoles(received)
        /\ \A c \in 1..Len(received) :
              Added[1 + c + TotalCalls(SubSeq(received, 1, c - 1))] = received[c]

C10_Example ==
    ( /\ ret.status = "returned"
      /\ run_base = << >>
      /\ messages[1] = UserMessage("go")
      /\ Len(received) = 2
      /\ received[1].content = "" /\ Len(received[1].tool_calls) = 1
      /\ received[1].tool_calls[1].name \in DOMAIN tool_callbacks
      /\ received[2].content = "done" /\ NoCalls(received[2]) ) =>
        /\ ret.value = "done"
        /\ Len(messages) = 4
        /\ [k \in 1..4 |-> messages[k].role] = << "user", "assistant", "tool", "assistant" >>
        /\ messages[2] = received[1] /\ messages[4] = received[2]

\* C10: a run call that returns after T turns carrying K requests in all has
\* called the provider T times and added 1 + T + K messages: the user
\* message, then per turn the assistant message and its tool results; the
\* two-turn example returns "done" and leaves user, assistant, tool,
\* assistant.
C10_TranscriptGrowth == C10_Counts /\ C10_Example

\* run("go") on a fresh interpreter: "" with one request for the registered
\* move, then "done"
C10_Witness ==
    /\ ret = Returned("done")
    /\ run_base = << >>
    /\ messages[1] = UserMessage("go")
    /\ Len(received) = 2
    /\ received[1] = Msg("assistant", "", TRUE, << Request("move", {<<"x", 1>>}) >>)
    /\ received[2] = Msg("assistant", "done", FALSE, << >>)
    /\ "move" \in DOMAIN tool_callbacks
    /\ messages[3].content = "Completed with no errors. Result: None"

\* position of a parameter name in the declaration of f (0 when absent)
PosIn(f, n) ==
    IF \E k \in 1..Len(f.params) : f.params[k].name = n
    THEN CHOOSE k \in 1..Len(f.params) : f.params[k].name = n
    ELSE 0

SchemaMatches(f, tool) ==
    LET ps  == tool.function.parameters.properties
        req == tool.function.parameters.required
    IN  /\ Len(ps) = Len(f.params)
        /\ \A k \in 1..Len(ps) : ps[k].name = f.params[k].name
        /\ { req[k] : k \in 1..Len(req) } =
              { f.params[k].name : k \in { j \in 1..Len(f.params) : ~f.params[j].has_default } }
        /\ \A i, j \in 1..Len(req) : i < j => PosIn(f, req[i]) < PosIn(f, req[j])

\* C11: the schema add_tool derives from a function of N parameters has N
\* parameter entries in declaration order, and its required list holds
\* exactly the parameters without default, in declaration order.
C11_SchemaShape ==
    /\ Len(tools) = Len(registered)
    /\ \A i \in 1..Len(tools) : SchemaMatches(registered[i], tools[i])

\* def gen(b=..., a): two parameters, the first with a default
C11_Witness ==
    /\ Len(tools) >= 1
    /\ Len(registered[1].params) = 2
    /\ registered[1].params[1].name = "b" /\ registered[1].params[1].has_default
    /\ registered[1].params[2].name = "a" /\ ~registered[1].params[2].has_default
    /\ tools[1].function.parameters.required = << "a" >>
    /\ Len(tools[1].function.parameters.properties) = 2

\* C12: in the derived schema a parameter without annotation has the type
\* "any", and a parameter with an annotation has the name of that type.
C12_ParamTypes ==
    \A i \in 1..Len(tools) :
        \A k \in 1..Len(registered[i].params) :
            tools[i].function.parameters.properties[k].type =
                IF registered[i].params[k].annotated
                THEN registered[i].params[k].annotation
                ELSE "any"

\* a provider call of the current run that got no answer
ProviderFailed == Len(sent) > Len(received)

C13_Propagates ==
    ProviderFailed =>
        /\ Len(sent) = Len(received) + 1
        /\ pc = "idle"
        /\ ret = Raised(ProviderError)

C13_Step ==
    (ProviderFailed /\ nruns' = nruns) =>
        /\ sent' = sent /\ nchats' = nchats
        /\ executed' = executed
        /\ received' = received

\* C13: a failure of ollama.chat is not caught: run ends with that exception
\* at once, and the aborted call makes no further provider call and runs no
\* further callback.
C13_ProviderFailureAborts == []C13_Propagates /\ [][C13_Step]_vars

\* the second provider call of a run failed, after a callback had run
C13_Witness ==
    /\ ProviderFailed
    /\ Len(received) = 1
    /\ Len(executed) >= 1
    /\ ret.status = "raised"

\* the requests of the current run that the for loop has gone past
RECURSIVE Flatten(_)
Flatten(turns) ==
    IF turns = << >> THEN << >> ELSE turns[1].tool_calls \o Flatten(Tail(turns))

C14_AtCallbackStart ==
    (pc = "executing" /\ tool_calls[idx].name \in DOMAIN tool_callbacks) =>
        LET owner == Len(messages) - (idx - 1)
        IN  /\ owner >= 1
            /\ messages[owner] = received[Len(received)]
            /\ messages[owner].tool_calls = tool_calls
            /\ \A j \in 1..(idx - 1) :
                  /\ messages[owner + j].role = "tool"
                  /\ answers[owner + j] = << owner, j >>
                  /\ messages[owner + j].content \in ResultsOf(tool_calls[j])

C14_OneAtATime ==
    /\ Len(executed') <= Len(executed) + 1
    /\ Len(executed') = Len(executed) + 1 =>
          /\ pc = "executing"
          /\ Len(messages') <= Len(messages) + 1

\* C14: when the callback of the j-th request of a batch is about to run,
\* the transcript ends with the assistant message of the batch followed by
\* the results of requests 1..j-1; callbacks run one at a time, each within
\* one step of the for loop.
C14_ResultsAppendedAtOnce == []C14_AtCallbackStart /\ [][C14_OneAtATime]_vars

\* the second callback of a batch is about to run after the first was answered
C14_Witness ==
    /\ pc = "executing" /\ idx = 2
    /\ tool_calls[1].name = "grip" /\ tool_calls[2].name = "move"
    /\ "move" \in DOMAIN tool_callbacks
    /\ messages[Len(messages)].role = "tool"
    /\ messages[Len(messages) - 1].tool_calls = tool_calls

IsPrefix(s, t) == Len(s) <= Len(t) /\ SubSeq(t, 1, Len(s)) = s

\* C15: every step of add_tool and run leaves the messages the transcript
\* already holds as an unchanged prefix of the new transcript.
C15_AppendOnly == [][IsPrefix(messages, messages')]_vars

\* a transcript grown over two run calls, one of them ended by the provider
\* failing, with a tool message of an unknown name in it
C15_Witness ==
    /\ nruns = 2
    /\ aborted
    /\ Len(messages) >= 4
    /\ \E p \in 1..Len(messages) : messages[p].content = "Error: grip is not a tool."

RegisteredNames == DOMAIN tool_callbacks

C16_Step ==
    /\ registered' # registered =>
          /\ messages' = messages
          /\ \E f \in Fns : /\ registered' = Append(registered, f)
                             /\ RegisteredNames' = RegisteredNames \cup {f.name}
    /\ registered' = registered =>
          /\ tools' = tools
          /\ tool_callbacks' = tool_callbacks
    /\ RegisteredNames \subseteq RegisteredNames'
    /\ IsPrefix(tools, tools')

\* C16: add_tool changes the registry and nothing of the transcript; no
\* step of run changes the registry; the set of registered names only grows.
C16_Frame == [][C16_Step]_vars

\* a second name was registered between two run calls
C16_Witness ==
    /\ RegisteredNames = {"move", "grip"}
    /\ Len(registered) = 2
    /\ nruns = 2
    /\ Len(run_base) >= 2
    /\ Len(sent) >= 1 /\ Len(sent[1].tools) = 2

Last(q) == q[Len(q)]

C17_Kept ==
    (ret.status = "raised" /\ pc = "idle") =>
        /\ messages = produced
        /\ Last(messages).role \in {"user", "tool"}

C17_Step ==
    /\ (ret.status = "running" /\ ret'.status = "raised") => messages' = messages
    /\ (ret.status = "raised" /\ nruns' = nruns + 1) =>
          /\ Len(messages') = Len(messages) + 1
          /\ SubSeq(messages', 1, Len(messages)) = produced
          /\ Last(messages').role = "user"
          /\ messages'[Len(messages)].role \in {"user", "tool"}
          /\ pc' = "awaiting"

\* C17: a run call ended by a provider failure keeps everything it had
\* appended; the transcript then ends with a user or tool message that has
\* no assistant reply, and the next run call goes to the provider with that
\* transcript followed by its own user message.
C17_NoRollback == []C17_Kept /\ [][C17_Step]_vars

\* the provider failed after a tool batch, and a second run call has started
C17_Witness ==
    /\ nruns = 2 /\ pc = "awaiting" /\ aborted
    /\ Len(messages) = 4
    /\ messages[2].role = "assistant"
    /\ messages[3].role = "tool"
    /\ messages[4].role = "user"

\* the callback executions a run call owes: its processed requests whose
\* name is registered
Processed ==
    IF pc = "executing"
    THEN Flatten(SubSeq(received, 1, Len(received) - 1)) \o SubSeq(tool_calls, 1, idx - 1)
    ELSE Flatten(received)

IsKnown(call) == call.name \in RegisteredNames

Calls(log) == [k \in 1..Len(log) |-> Request(log[k].name, log[k].arguments)]

C18_Log ==
    ret.status = "running" =>
        /\ Calls(executed) = SelectSeq(Processed, IsKnown)
        /\ \A k \in 1..Len(executed) : executed[k].fn = tool_callbacks[executed[k].name].id

C18_Step ==
    /\ Len(executed') > Len(executed) =>
          /\ pc = "executing"
          /\ IsKnown(tool_calls[idx])
          /\ executed' = Append(executed, Last(executed'))
          /\ Calls(<< Last(executed') >>) = << tool_calls[idx] >>
    /\ (pc = "executing" /\ ~IsKnown(tool_calls[idx])) => executed' = executed
    /\ pc # "executing" => (executed' = executed \/ (executed' = << >> /\ nruns' = nruns + 1))

\* C18: over a run call the callbacks executed are, in turn and list order,
\* exactly the requests whose name is registered when they are dispatched,
\* each once and with the arguments of its request; add_tool, a turn
\* without requests and a request for an unknown name execute nothing.
C18_ExecutedOnRequest == []C18_Log /\ [][C18_Step]_vars

\* a batch of an unknown and a known name: one execution, with the arguments
C18_Witness ==
    /\ ret.status = "running" /\ pc = "awaiting"
    /\ Len(received) = 1
    /\ received[1].tool_calls = << Request("grip", {}), Request("move", {<<"x", 1>>}) >>
    /\ RegisteredNames = {"move"}
    /\ Len(executed) = 1
    /\ executed[1].arguments = {<<"x", 1>>}
====
